---------------------------- MODULE Spec2Model ----------------------------
(***************************************************************************)
(* Goodreads shelf scraper: scrape_shelf / scroll_shelf                    *)
(* (src/src/scraper/scrape.py) and the parsing helpers of                  *)
(* src/src/utils/utils.py.                                                 *)
(*                                                                         *)
(* Text is a sequence of characters; a character is a one-element string   *)
(* ("sup2" stands for U+00B2 SUPERSCRIPT TWO, a character for which        *)
(* Python's str.isdigit() is True and int() raises ValueError).            *)
(***************************************************************************)
EXTENDS Integers, Sequences, FiniteSets, TLC

VARIABLES
    pc,               \* position of the invocation in scrape_shelf / scroll_shelf
    session,          \* the browser: "none", "open" or "closed"
    quits,            \* number of browser.quit() calls so far
    pageBody,         \* the page: whether <body> is in the document
    pageStatus,       \* the page: text of #infiniteStatus, or Absent
    rendered,         \* the page: number of .bookalike rows in the document
    current_books,    \* scroll_shelf's local
    remaining_books,  \* scroll_shelf's local
    books,            \* scrape_shelf's local: the rows found at line 46, in
                      \* document order, each with the content it has then
    book_list,        \* scrape_shelf's local: the records built so far
    result,           \* what scrape_shelf returned, or NoResult
    error,            \* the exception scrape_shelf ended with and the line of
                      \* scrape.py that raised it, or NoError
    signals,          \* history: number of body.send_keys(Keys.END) calls
    reads,            \* history: number of parsed statuses with loaded < total
    lastRead,         \* history: the pair parsed most recently
    firstTotal,       \* history: the total of the first parsed status
    totalChanged,     \* history: some parsed status had another total
    fn, arg, ret      \* a helper called on its own: which, its argument, its result

(***************************************************************************)
(* Bounds of the model.                                                    *)
(***************************************************************************)
MaxLen == 5

MaxTotal == 2

MaxItems == 3

MaxSignals == 3

(***************************************************************************)
(* Characters and Python's string primitives.                              *)
(***************************************************************************)
Decimal == {"0", "1", "2", "3", "4", "5", "6", "7", "8", "9"}

SuperscriptDigits == {"sup2"}

Whitespace == {" ", "\t"}

DigitVal(c) ==
    CASE c = "0" -> 0 [] c = "1" -> 1 [] c = "2" -> 2 [] c = "3" -> 3
      [] c = "4" -> 4 [] c = "5" -> 5 [] c = "6" -> 6 [] c = "7" -> 7
      [] c = "8" -> 8 [] c = "9" -> 9

DigitChar(d) ==
    CASE d = 0 -> "0" [] d = 1 -> "1" [] d = 2 -> "2" [] d = 3 -> "3"
      [] d = 4 -> "4" [] d = 5 -> "5" [] d = 6 -> "6" [] d = 7 -> "7"
      [] d = 8 -> "8" [] d = 9 -> "9"

\* Results of a call: a returned value or a raised exception.
Return(v) == [kind |-> "return", val |-> v]

Raise(e) == [kind |-> "raise", exc |-> e]

Pending == [kind |-> "pending"]

IntVal(n) == [type |-> "int", n |-> n]

None == [type |-> "None"]

\* str.split(sep): cut at every single occurrence of sep, empty pieces kept.
RECURSIVE SplitOn(_, _)
SplitOn(s, sep) ==
    IF \A i \in 1..Len(s) : s[i] # sep
    THEN <<s>>
    ELSE LET k == CHOOSE i \in 1..Len(s) :
                      s[i] = sep /\ \A j \in 1..(i - 1) : s[j] # sep
         IN <<SubSeq(s, 1, k - 1)>> \o SplitOn(SubSeq(s, k + 1, Len(s)), sep)

\* str.split(): cut at runs of whitespace, no empty pieces.
RECURSIVE SplitWs(_)
SplitWs(s) ==
    IF s = <<>> THEN <<>>
    ELSE IF s[1] \in Whitespace THEN SplitWs(Tail(s))
    ELSE LET ends == {i \in 1..Len(s) : s[i] \in Whitespace}
             k == IF ends = {} THEN Len(s) + 1
                  ELSE CHOOSE i \in ends : \A j \in ends : i <= j
         IN <<SubSeq(s, 1, k - 1)>> \o SplitWs(SubSeq(s, k, Len(s)))

\* str.strip(), also what int(), float() and textContent.trim() do first.
RECURSIVE Strip(_)
Strip(s) ==
    IF s = <<>> THEN s
    ELSE IF s[1] \in Whitespace THEN Strip(Tail(s))
    ELSE IF s[Len(s)] \in Whitespace THEN Strip(SubSeq(s, 1, Len(s) - 1))
    ELSE s

\* str.isdigit(): non-empty and every character has the Unicode digit
\* property, which the superscript digits have too.
IsDigit(s) == s # <<>> /\ \A i \in 1..Len(s) : s[i] \in Decimal \cup SuperscriptDigits

AllDecimal(s) == \A i \in 1..Len(s) : s[i] \in Decimal

RECURSIVE DecimalValue(_)
DecimalValue(s) ==
    IF s = <<>> THEN 0
    ELSE 10 * DecimalValue(SubSeq(s, 1, Len(s) - 1)) + DigitVal(s[Len(s)])

\* int(s): surrounding whitespace is dropped, then decimal digits only
\* (signs and underscores are not among the characters modelled).
PyInt(s) ==
    LET t == Strip(s)
    IN IF t # <<>> /\ AllDecimal(t) THEN Return(DecimalValue(t))
       ELSE Raise("ValueError")

\* float(s): surrounding whitespace is dropped; digits with at most one point.
\* The value is kept as the pair <<integer part, fractional digits>>.
PyFloat(s) ==
    LET t == Strip(s)
        parts == SplitOn(t, ".")
    IN IF /\ Len(parts) \in {1, 2}
          /\ \A i \in 1..Len(parts) : AllDecimal(parts[i])
          /\ \E i \in 1..Len(parts) : parts[i] # <<>>
       THEN Return(<<DecimalValue(parts[1]),
                    IF Len(parts) = 2 THEN parts[2] ELSE <<>>>>)
       ELSE Raise("ValueError")

\* Index of the first character of s at or after position i that is in cs,
\* Len(s) + 1 when there is none.
FirstOf(s, i, cs) ==
    LET hits == {k \in i..Len(s) : s[k] \in cs}
    IN IF hits = {} THEN Len(s) + 1 ELSE CHOOSE k \in hits : \A j \in hits : k <= j

\* urllib.parse.urlparse(url).path: what follows "scheme://netloc", cut at
\* the query or the fragment.
UrlPath(url) ==
    LET c == FirstOf(url, 1, {":"})
        hasNetloc == /\ c + 2 <= Len(url)
                     /\ url[c + 1] = "/"
                     /\ url[c + 2] = "/"
        start == IF hasNetloc THEN FirstOf(url, c + 3, {"/", "?", "#"})
                 ELSE IF c <= Len(url) /\ c > 1 THEN c + 1
                 ELSE 1
        stop == FirstOf(url, start, {"?", "#"})
    IN SubSeq(url, start, stop - 1)

(***************************************************************************)
(* utils.py                                                                *)
(***************************************************************************)
extract_num_pages(page_string) ==
    LET parts == SplitWs(page_string)
        hits == {i \in 1..Len(parts) : IsDigit(parts[i])}
    IN IF hits = {} THEN Return(None)
       ELSE LET p == parts[CHOOSE i \in hits : \A j \in hits : i <= j]
                r == PyInt(p)
            IN IF r.kind = "raise" THEN r ELSE Return(IntVal(r.val))

parse_infinite_status(text) ==
    LET infinite_status_text == SplitOn(text, " ")
    IN IF Len(infinite_status_text) < 3 THEN Raise("IndexError")
       ELSE LET remaining == PyInt(infinite_status_text[3])
                current == PyInt(infinite_status_text[1])
            IN IF remaining.kind = "raise" THEN remaining
               ELSE IF current.kind = "raise" THEN current
               ELSE Return(<<current.val, remaining.val>>)

\* A row of the shelf is a function from the CSS selectors that match inside
\* it to the text content of the element matched; "@href" names the
\* attribute of the author link.
find_element(element, css_selector) ==
    IF css_selector \in DOMAIN element THEN Return(element[css_selector])
    ELSE Raise("NoSuchElementException")

\* WebElement.text: the rendered text, without surrounding whitespace.
VisibleText(found) ==
    IF found.kind = "raise" THEN found ELSE Return(Strip(found.val))

extract_hidden_td(element, css_selector) ==
    LET hidden_td_element == find_element(element, css_selector)
    IN IF hidden_td_element.kind = "raise" THEN hidden_td_element
       ELSE Return(Strip(hidden_td_element.val))

extract_author_id(author_url) ==
    LET author_path == UrlPath(author_url)
        last == SplitOn(author_path, "/")
    IN SplitOn(last[Len(last)], ".")[1]

AuthorSel == "td.field.author div.value a"

\* The calls of process_book in the order Python evaluates them; the first
\* one that raises ends the call.
ProcessSteps(book) ==
    LET author_info == find_element(book, AuthorSel)
        author_link == IF author_info.kind = "raise" THEN author_info
                       ELSE Return(book["@href"])
        author_id == IF author_link.kind = "raise" THEN author_link
                     ELSE PyInt(extract_author_id(author_link.val))
        avg_text == extract_hidden_td(book, "td.field.avg_rating > div.value")
        avg_rating == IF avg_text.kind = "raise" THEN avg_text
                      ELSE PyFloat(avg_text.val)
        pages_string == extract_hidden_td(book, "td.field.num_pages")
        num_pages == IF pages_string.kind = "raise" THEN pages_string
                     ELSE extract_num_pages(pages_string.val)
    IN << extract_hidden_td(book, "td.field.isbn div.value"),
          extract_hidden_td(book, "td.field.isbn13 div.value"),
          VisibleText(find_element(book, "td.field.title")),
          VisibleText(author_info),
          author_link,
          author_id,
          avg_rating,
          VisibleText(find_element(book, "td.field.rating")),
          num_pages,
          extract_hidden_td(book, "td.field.date_pub > div.value"),
          extract_hidden_td(book, "td.field.date_started > div.value"),
          extract_hidden_td(book, "td.field.date_read > div.value"),
          extract_hidden_td(book, "td.field.date_added > div.value") >>

process_book(book) ==
    LET steps == ProcessSteps(book)
        raised == {i \in 1..Len(steps) : steps[i].kind = "raise"}
    IN IF raised # {}
       THEN steps[CHOOSE i \in raised : \A j \in raised : i <= j]
       ELSE Return([isbn            |-> steps[1].val,
                    isbn13          |-> steps[2].val,
                    title           |-> steps[3].val,
                    author_name     |-> steps[4].val,
                    author_link     |-> steps[5].val,
                    author_id       |-> steps[6].val,
                    avg_rating      |-> steps[7].val,
                    user_rating     |-> steps[8].val,
                    num_pages       |-> steps[9].val,
                    publishing_date |-> steps[10].val,
                    started_date    |-> steps[11].val,
                    finished_date   |-> steps[12].val,
                    added_date      |-> steps[13].val])

(***************************************************************************)
(* The page: what the site may show.                                       *)
(***************************************************************************)
RECURSIVE IntToText(_)
IntToText(n) ==
    IF n < 10 THEN <<DigitChar(n)>>
    ELSE Append(IntToText(n \div 10), DigitChar(n % 10))

\* "<a> of <b> loaded"
StatusLine(a, b) ==
    IntToText(a) \o <<" ", "o", "f", " ">> \o IntToText(b)
        \o <<" ", "l", "o", "a", "d", "e", "d">>

MalformedStatus ==
    { <<>>,
      <<"l", "o", "a", "d", "i", "n", "g">>,
      <<"1", " ", " ", "o", "f", " ", "2">> }

StatusTexts ==
    {StatusLine(a, b) : a \in 0..MaxTotal, b \in 0..MaxTotal} \cup MalformedStatus

\* No element with id infiniteStatus in the document.
Absent == <<"<absent>">>

FullRow ==
    "td.field.isbn div.value" :> <<"0", "4", "4">>
    @@ "td.field.isbn13 div.value" :> <<"9", "7", "8">>
    @@ "td.field.title" :> <<"D", "u", "n", "e">>
    @@ AuthorSel :> <<"H", ",", " ", "F">>
    @@ "@href" :> <<"h", ":", "/", "/", "g", "/", "a", "/", "1", "2", ".", "F", "_", "H">>
    @@ "td.field.avg_rating > div.value" :> <<" ", "4", ".", "2", "5", " ">>
    @@ "td.field.rating" :> <<"l", "i", "k", "e", "d">>
    @@ "td.field.num_pages" :> <<" ", "3", "1", "2", " ", "p", "p">>
    @@ "td.field.date_pub > div.value" :> <<"1", "9", "6", "5">>
    @@ "td.field.date_started > div.value" :> <<"J", "a", "n">>
    @@ "td.field.date_read > div.value" :> <<"F", "e", "b">>
    @@ "td.field.date_added > div.value" :> <<"M", "a", "r">>

\* Blank ISBNs, page count and dates; an author link with a query.
SparseRow ==
    "td.field.isbn div.value" :> <<>>
    @@ "td.field.isbn13 div.value" :> <<>>
    @@ "td.field.title" :> <<"E", "m", "m", "a">>
    @@ AuthorSel :> <<"A", ",", " ", "J">>
    @@ "@href" :> <<"h", ":", "/", "/", "g", "/", "a", "/", "7", ".", "J", "?", "x">>
    @@ "td.field.avg_rating > div.value" :> <<"4">>
    @@ "td.field.rating" :> <<>>
    @@ "td.field.num_pages" :> <<"p", "p">>
    @@ "td.field.date_pub > div.value" :> <<>>
    @@ "td.field.date_started > div.value" :> <<>>
    @@ "td.field.date_read > div.value" :> <<>>
    @@ "td.field.date_added > div.value" :> <<>>

Without(row, selectors) == [k \in DOMAIN row \ selectors |-> row[k]]

Rows == {"full", "sparse", "no_title", "no_author", "bad_rating", "bad_author_id"}

\* The content of each kind of row.
Dom(row) ==
    CASE row = "full" -> FullRow
      [] row = "sparse" -> SparseRow
      [] row = "no_title" -> Without(FullRow, {"td.field.title"})
      [] row = "no_author" -> Without(SparseRow, {AuthorSel, "@href"})
      [] row = "bad_rating" ->
            [FullRow EXCEPT !["td.field.avg_rating > div.value"] = <<>>]
      [] row = "bad_author_id" ->
            [SparseRow EXCEPT !["@href"] = <<"h", ":", "/", "/", "g", "/", "a", "/", "J">>]

(***************************************************************************)
(* scrape.py                                                               *)
(***************************************************************************)
NoResult == <<"<no result>">>

NoRead == <<-1, -1>>

NoError == [exc |-> "none", line |-> 0]

helper == <<fn, arg, ret>>

mvars == <<pc, session, quits, pageBody, pageStatus, rendered, current_books,
           remaining_books, books, book_list, result, error, signals, reads,
           lastRead, firstTotal, totalChanged>>

pagevars == <<pageBody, pageStatus, rendered>>

locals == <<current_books, remaining_books, books, book_list>>

history == <<signals, reads, lastRead, firstTotal, totalChanged>>

vars == <<mvars, fn, arg, ret>>

Init ==
    /\ pc = "setup_browser"
    /\ session = "none"
    /\ quits = 0
    /\ pageBody = FALSE
    /\ pageStatus = Absent
    /\ rendered = 0
    /\ current_books = 0
    /\ remaining_books = 0
    /\ books = <<>>
    /\ book_list = <<>>
    /\ result = NoResult
    /\ error = NoError
    /\ signals = 0
    /\ reads = 0
    /\ lastRead = NoRead
    /\ firstTotal = -1
    /\ totalChanged = FALSE
    /\ fn = "none"
    /\ arg = <<>>
    /\ ret = Pending

Running == pc \notin {"setup_browser", "done", "aborted"}

\* An exception nothing catches: scrape_shelf ends with it.
Propagate(exc, line) ==
    /\ pc' = "aborted"
    /\ error' = [exc |-> exc, line |-> line]
    /\ UNCHANGED <<session, quits, result, helper>>

Goto(next) ==
    /\ pc' = next
    /\ UNCHANGED <<session, quits, result, error, helper>>

Bump(n) == IF n < MaxSignals THEN n + 1 ELSE n

\* The status pair just parsed, as the history sees it.
Record(pair) ==
    /\ lastRead' = pair
    /\ reads' = IF pair[1] < pair[2] THEN Bump(reads) ELSE reads
    /\ firstTotal' = IF firstTotal = -1 THEN pair[2] ELSE firstTotal
    /\ totalChanged' = (totalChanged \/ (firstTotal # -1 /\ pair[2] # firstTotal))

\* parse_infinite_status and process_book on each thing the page can show,
\* computed once.
ParsedStatus == [text \in StatusTexts |-> parse_infinite_status(text)]

ProcessedRow == [row \in Rows |-> process_book(Dom(row))]

\* parse_infinite_status(infinite_status): WebElement.text of the element
\* held, then the parse.
ParseStatus ==
    IF pageStatus = Absent THEN Raise("StaleElementReferenceException")
    ELSE ParsedStatus[pageStatus]

\* Lines 32-33.
SetupBrowser ==
    /\ pc = "setup_browser"
    /\ pc' = "wait_body"
    /\ session' = "open"
    /\ UNCHANGED <<quits, result, error, pagevars, locals, history, helper>>

\* Lines 36-38.
WaitBody ==
    /\ pc = "wait_body"
    /\ IF pageBody THEN Goto("click") ELSE Propagate("TimeoutException", 36)
    /\ UNCHANGED <<pagevars, locals, history>>

\* Line 40.
ClickPopup ==
    /\ pc = "click"
    /\ \E performed \in BOOLEAN :
          IF performed THEN Goto("wait_status")
          ELSE Propagate("MoveTargetOutOfBoundsException", 40)
    /\ UNCHANGED <<pagevars, locals, history>>

\* Lines 42-44.
WaitStatus ==
    /\ pc = "wait_status"
    /\ IF pageStatus # Absent THEN Goto("scroll_shelf")
       ELSE Propagate("TimeoutException", 42)
    /\ UNCHANGED <<pagevars, locals, history>>

\* Line 16.
ScrollParse ==
    /\ pc = "scroll_shelf"
    /\ LET r == ParseStatus
       IN IF r.kind = "raise"
          THEN /\ Propagate(r.exc, 16)
               /\ UNCHANGED <<current_books, remaining_books, history>>
          ELSE /\ Goto("while")
               /\ current_books' = r.val[1]
               /\ remaining_books' = r.val[2]
               /\ Record(r.val)
               /\ UNCHANGED signals
    /\ UNCHANGED <<pagevars, books, book_list>>

\* Line 17 with <= for <.
LoopTestInclusive ==
    /\ pc = "while"
    /\ IF current_books <= remaining_books THEN Goto("send_keys")
       ELSE Goto("find_elements")
    /\ UNCHANGED <<pagevars, locals, history>>

\* Line 17.
LoopTest ==
    /\ pc = "while"
    /\ IF current_books < remaining_books THEN Goto("send_keys")
       ELSE Goto("find_elements")
    /\ UNCHANGED <<pagevars, locals, history>>

\* Line 19.
SendKeys ==
    /\ pc = "send_keys"
    /\ Goto("wait_growth")
    /\ signals' = Bump(signals)
    /\ UNCHANGED <<pagevars, locals, reads, lastRead, firstTotal, totalChanged>>

\* Lines 21-23 with >= for >.
WaitGrowthNotStrict ==
    /\ pc = "wait_growth"
    /\ IF rendered >= current_books THEN Goto("wait_status_again")
       ELSE Propagate("TimeoutException", 21)
    /\ UNCHANGED <<pagevars, locals, history>>

\* Lines 21-23.
WaitGrowth ==
    /\ pc = "wait_growth"
    /\ IF rendered > current_books THEN Goto("wait_status_again")
       ELSE Propagate("TimeoutException", 21)
    /\ UNCHANGED <<pagevars, locals, history>>

\* Lines 24-26.
WaitStatusAgain ==
    /\ pc = "wait_status_again"
    /\ IF pageStatus # Absent THEN Goto("reparse")
       ELSE Propagate("TimeoutException", 24)
    /\ UNCHANGED <<pagevars, locals, history>>

\* Line 28 with the pair unpacked the other way round.
ReparseSwapped ==
    /\ pc = "reparse"
    /\ LET r == ParseStatus
       IN IF r.kind = "raise"
          THEN /\ Propagate(r.exc, 28)
               /\ UNCHANGED <<current_books, history>>
          ELSE /\ Goto("while")
               /\ current_books' = r.val[2]
               /\ Record(r.val)
               /\ UNCHANGED signals
    /\ UNCHANGED <<pagevars, remaining_books, books, book_list>>

\* Line 28.
Reparse ==
    /\ pc = "reparse"
    /\ LET r == ParseStatus
       IN IF r.kind = "raise"
          THEN /\ Propagate(r.exc, 28)
               /\ UNCHANGED <<current_books, history>>
          ELSE /\ Goto("while")
               /\ current_books' = r.val[1]
               /\ Record(r.val)
               /\ UNCHANGED signals
    /\ UNCHANGED <<pagevars, remaining_books, books, book_list>>

\* Line 46, scroll_shelf having returned: its frame and its history end.
FindElements ==
    /\ pc = "find_elements"
    /\ Goto("process_book")
    /\ \E found \in [1..rendered -> Rows] : books' = found
    /\ current_books' = 0
    /\ remaining_books' = 0
    /\ signals' = 0
    /\ reads' = 0
    /\ lastRead' = NoRead
    /\ firstTotal' = -1
    /\ totalChanged' = FALSE
    /\ UNCHANGED <<pagevars, book_list>>

\* Line 47 building the list back to front.
ProcessBooksReversed ==
    /\ pc = "process_book"
    /\ IF Len(book_list) < Len(books)
       THEN LET r == ProcessedRow[books[Len(book_list) + 1]]
            IN IF r.kind = "raise"
               THEN Propagate(r.exc, 47) /\ UNCHANGED book_list
               ELSE Goto("process_book") /\ book_list' = <<r.val>> \o book_list
       ELSE Goto("quit") /\ UNCHANGED book_list
    /\ UNCHANGED <<pagevars, current_books, remaining_books, books, history>>

\* Line 47 dropping the rows that fail and going on.
ProcessBooksSkipping ==
    /\ pc = "process_book"
    /\ LET ok == {i \in 1..Len(books) : ProcessedRow[books[i]].kind = "return"}
           done == Cardinality(ok) = Len(book_list)
       IN IF ~done
          THEN LET i == CHOOSE k \in ok :
                            Cardinality({j \in ok : j < k}) = Len(book_list)
               IN /\ Goto("process_book")
                  /\ book_list' = Append(book_list, ProcessedRow[books[i]].val)
          ELSE Goto("quit") /\ UNCHANGED book_list
    /\ UNCHANGED <<pagevars, current_books, remaining_books, books, history>>

\* Line 47: one turn of the comprehension, or its end.
ProcessBooks ==
    /\ pc = "process_book"
    /\ IF Len(book_list) < Len(books)
       THEN LET r == ProcessedRow[books[Len(book_list) + 1]]
            IN IF r.kind = "raise"
               THEN Propagate(r.exc, 47) /\ UNCHANGED book_list
               ELSE Goto("process_book") /\ book_list' = Append(book_list, r.val)
       ELSE Goto("quit") /\ UNCHANGED book_list
    /\ UNCHANGED <<pagevars, current_books, remaining_books, books, history>>

\* Line 48.
Quit ==
    /\ pc = "quit"
    /\ pc' = "return"
    /\ session' = "closed"
    /\ quits' = quits + 1
    /\ UNCHANGED <<result, error, pagevars, locals, history, helper>>

\* Line 49.
ReturnBooks ==
    /\ pc = "return"
    /\ pc' = "done"
    /\ result' = book_list
    /\ UNCHANGED <<session, quits, error, pagevars, locals, history, helper>>

Program ==
    \/ SetupBrowser
    \/ WaitBody
    \/ ClickPopup
    \/ WaitStatus
    \/ ScrollParse
    \/ LoopTest
    \/ SendKeys
    \/ WaitGrowth
    \/ WaitStatusAgain
    \/ Reparse
    \/ FindElements
    \/ ProcessBooks
    \/ Quit
    \/ ReturnBooks

(***************************************************************************)
(* The site, while the session is on the page.  Once line 46 has found the *)
(* rows, the code reads nothing but them.                                  *)
(***************************************************************************)
PageObserved == Running /\ pc \notin {"process_book", "quit", "return"}

PageLoadsBody ==
    /\ PageObserved
    /\ ~pageBody
    /\ pageBody' = TRUE
    /\ UNCHANGED <<pc, session, quits, result, error, pageStatus, rendered,
                   locals, history, helper>>

PageSetsStatus ==
    /\ PageObserved
    /\ pageBody
    /\ \E t \in StatusTexts \cup {Absent} :
          /\ t # pageStatus
          /\ pageStatus' = t
    /\ UNCHANGED <<pc, session, quits, result, error, pageBody, rendered,
                   locals, history, helper>>

PageAppendsRow ==
    /\ PageObserved
    /\ pageBody
    /\ rendered < MaxItems
    /\ rendered' = rendered + 1
    /\ UNCHANGED <<pc, session, quits, result, error, pageBody, pageStatus,
                   locals, history, helper>>

Next ==
    \/ SetupBrowser
    \/ WaitBody
    \/ ClickPopup
    \/ WaitStatus
    \/ ScrollParse
    \/ LoopTest
    \/ SendKeys
    \/ WaitGrowth
    \/ WaitStatusAgain
    \/ Reparse
    \/ FindElements
    \/ ProcessBooks
    \/ Quit
    \/ ReturnBooks
    \/ PageLoadsBody
    \/ PageSetsStatus
    \/ PageAppendsRow

Spec == Init /\ [][Next]_vars

\* The invocation is never suspended except at its bounded waits.
LiveSpec == Spec /\ WF_vars(Program)


(***************************************************************************)
(* The helpers on their own: one call on an arbitrary short text.          *)
(***************************************************************************)
Alphabet == {"1", "2", "sup2", " ", "\t", "a"}

RECURSIVE TextsOfLen(_)
TextsOfLen(n) ==
    IF n = 0 THEN {<<>>}
    ELSE {Append(t, c) : t \in TextsOfLen(n - 1), c \in Alphabet}

TextsUpTo(len) == UNION {TextsOfLen(n) : n \in 0..len}

FnInit ==
    /\ fn = "none"
    /\ arg \in TextsUpTo(MaxLen)
    /\ ret = Pending
    /\ pc = "setup_browser"
    /\ session = "none"
    /\ quits = 0
    /\ pageBody = FALSE
    /\ pageStatus = Absent
    /\ rendered = 0
    /\ current_books = 0
    /\ remaining_books = 0
    /\ books = <<>>
    /\ book_list = <<>>
    /\ result = NoResult
    /\ error = NoError
    /\ signals = 0
    /\ reads = 0
    /\ lastRead = NoRead
    /\ firstTotal = -1
    /\ totalChanged = FALSE

CallParseInfiniteStatus ==
    /\ fn = "none"
    /\ fn' = "parse_infinite_status"
    /\ ret' = parse_infinite_status(arg)
    /\ UNCHANGED <<arg, mvars>>

CallExtractNumPages ==
    /\ fn = "none"
    /\ fn' = "extract_num_pages"
    /\ ret' = extract_num_pages(arg)
    /\ UNCHANGED <<arg, mvars>>

FnNext == CallParseInfiniteStatus \/ CallExtractNumPages

FnSpec == FnInit /\ [][FnNext]_vars

(***************************************************************************)
(* Properties of scroll_shelf.                                             *)
(***************************************************************************)
\* C1: while every parsed status shows the same total, the number of END
\* keys sent is the number of parsed statuses with loaded < total, less the
\* one still owed for the latest status; a key is sent only after such a
\* status; and scroll_shelf returns with loaded >= total, having sent one
\* key for each such status (two for the statuses 0/2, 1/2, 2/2).
C1_OneSignalPerRead ==
    ~totalChanged =>
        /\ pc = "send_keys" => lastRead[1] < lastRead[2]
        /\ (pc = "send_keys" /\ reads < MaxSignals) => signals = reads - 1
        /\ (pc = "while" /\ reads < MaxSignals) =>
              signals = IF lastRead[1] < lastRead[2] THEN reads - 1 ELSE reads
        /\ pc \in {"wait_growth", "wait_status_again", "reparse"} => signals = reads
        /\ pc = "find_elements" =>
              /\ signals = reads
              /\ lastRead[1] >= lastRead[2]
              /\ lastRead = <<current_books, remaining_books>>

C1_Witness ==
    /\ pc = "find_elements"
    /\ ~totalChanged
    /\ signals = 2
    /\ lastRead = <<2, 2>>

\* C2: when the wait of lines 21-23 ends without more rows than
\* current_books, scrape_shelf ends there with TimeoutException: no END
\* key is sent, no status is parsed, no row is processed, nothing is
\* returned, then or later.
C2_StallAborts ==
    /\ [][(pc = "wait_growth" /\ pc' # pc /\ rendered <= current_books) =>
             /\ pc' = "aborted"
             /\ error' = [exc |-> "TimeoutException", line |-> 21]]_vars
    /\ [][pc = "aborted" =>
             /\ pc' = "aborted"
             /\ <<signals, reads, lastRead, book_list, books, result>>'
                   = <<signals, reads, lastRead, book_list, books, result>>]_vars
    /\ [](error.line = 21 =>
             /\ pc = "aborted"
             /\ books = <<>>
             /\ book_list = <<>>
             /\ result = NoResult)

C2_Witness ==
    /\ pc = "aborted"
    /\ error = [exc |-> "TimeoutException", line |-> 21]
    /\ signals = 2
    /\ rendered = current_books

\* C3: every call of scroll_shelf ends: it returns or it raises.
C3_ScrollShelfEnds == (pc = "scroll_shelf") ~> (pc \in {"find_elements", "aborted"})

\* C10 as stated: whenever the loop condition is evaluated, both numbers
\* compared are those of the status parsed last.
C10_PairIsFresh ==
    pc = "while" => <<current_books, remaining_books>> = lastRead

\* C10 as amended: whenever the loop condition is evaluated, current_books
\* is the loaded count of the status parsed last and remaining_books is the
\* total of the first status parsed.
C10_LoadedFreshTotalFirst ==
    pc = "while" =>
        /\ current_books = lastRead[1]
        /\ remaining_books = firstTotal

C10_Witness ==
    /\ pc = "while"
    /\ signals >= 1
    /\ totalChanged
    /\ lastRead[2] # remaining_books
    /\ current_books = lastRead[1]

(***************************************************************************)
(* Properties of scrape_shelf.                                             *)
(***************************************************************************)
Ended == pc \in {"done", "aborted"}

\* C4: whenever scrape_shelf has ended, by returning or by an exception,
\* browser.quit() has been called exactly once.
C4_ReleasedExactlyOnce == Ended => (quits = 1 /\ session = "closed")

\* The record process_book builds for each kind of row that has every
\* element and well-formed numbers.
ExpectedRecord(row) ==
    IF row = "full"
    THEN [isbn            |-> <<"0", "4", "4">>,
          isbn13          |-> <<"9", "7", "8">>,
          title           |-> <<"D", "u", "n", "e">>,
          author_name     |-> <<"H", ",", " ", "F">>,
          author_link     |-> FullRow["@href"],
          author_id       |-> 12,
          avg_rating      |-> <<4, <<"2", "5">>>>,
          user_rating     |-> <<"l", "i", "k", "e", "d">>,
          num_pages       |-> IntVal(312),
          publishing_date |-> <<"1", "9", "6", "5">>,
          started_date    |-> <<"J", "a", "n">>,
          finished_date   |-> <<"F", "e", "b">>,
          added_date      |-> <<"M", "a", "r">>]
    ELSE [isbn            |-> <<>>,
          isbn13          |-> <<>>,
          title           |-> <<"E", "m", "m", "a">>,
          author_name     |-> <<"A", ",", " ", "J">>,
          author_link     |-> SparseRow["@href"],
          author_id       |-> 7,
          avg_rating      |-> <<4, <<>>>>,
          user_rating     |-> <<>>,
          num_pages       |-> None,
          publishing_date |-> <<>>,
          started_date    |-> <<>>,
          finished_date   |-> <<>>,
          added_date      |-> <<>>]

\* C5: what scrape_shelf returns has one record for each row of the listing
\* found at line 46, the i-th record being that of the i-th row.
C5_OneRecordPerRowInOrder ==
    pc = "done" =>
        /\ Len(result) = rendered
        /\ Len(result) = Len(books)
        /\ \A i \in 1..Len(books) :
              /\ books[i] \in {"full", "sparse"}
              /\ result[i] = ExpectedRecord(books[i])

C5_Witness ==
    /\ pc = "done"
    /\ Len(result) = MaxItems
    /\ books[1] = "sparse"
    /\ books[2] = "full"

FailingRows == {"no_title", "no_author", "bad_rating", "bad_author_id"}

ExpectedException(row) ==
    IF row \in {"no_title", "no_author"} THEN "NoSuchElementException"
    ELSE "ValueError"

\* C6: when some row found at line 46 has no title or author element, or an
\* avg_rating or author id that does not parse, scrape_shelf never gets
\* past line 47 and returns nothing: it ends with the exception of the
\* first such row, the records built before it notwithstanding.
C6_FailingRowAborts ==
    LET bad == {i \in 1..Len(books) : books[i] \in FailingRows}
    IN bad # {} =>
          LET first == CHOOSE i \in bad : \A j \in bad : i <= j
          IN /\ pc \in {"process_book", "aborted"}
             /\ result = NoResult
             /\ Len(book_list) < first
             /\ pc = "aborted" =>
                   /\ Len(book_list) = first - 1
                   /\ error = [exc |-> ExpectedException(books[first]), line |-> 47]

C6_Witness ==
    /\ pc = "aborted"
    /\ error.line = 47
    /\ Len(book_list) = 2
    /\ books[3] = "bad_author_id"
    /\ result = NoResult

\* C9: whatever happens to the click of line 40, scrape_shelf goes on to the
\* wait for the status element.
C9_ClickFailureSwallowed == [][(pc = "click" /\ pc' # pc) => pc' = "wait_status"]_vars

(***************************************************************************)
(* Properties of the helpers.                                              *)
(***************************************************************************)
Numeric(token) == token # <<>> /\ AllDecimal(token)

\* C7: parse_infinite_status returns (a, b) for a text of at least three
\* whitespace-separated tokens whose first is the integer a and third the
\* integer b, and raises for any other text.
C7_ParsesWhitespaceTokens ==
    fn = "parse_infinite_status" =>
        LET tokens == SplitWs(arg)
        IN IF Len(tokens) >= 3 /\ Numeric(tokens[1]) /\ Numeric(tokens[3])
           THEN ret = Return(<<DecimalValue(tokens[1]), DecimalValue(tokens[3])>>)
           ELSE ret.kind = "raise"

\* C8: extract_num_pages never raises: it returns the value of the first
\* whitespace-delimited token made only of digits, None when there is none.
C8_NeverRaises ==
    fn = "extract_num_pages" =>
        LET tokens == SplitWs(arg)
            hits == {i \in 1..Len(tokens) : Numeric(tokens[i])}
        IN /\ ret.kind = "return"
           /\ ret.val = IF hits = {} THEN None
                        ELSE IntVal(DecimalValue(
                                 tokens[CHOOSE i \in hits : \A j \in hits : i <= j]))

=============================================================================
